---- MODULE Spec2Model ----
(***************************************************************************)
(* k8s-nameserver (cmd/k8s-nameserver/main.go): the reload pipeline        *)
(* (configReader -> updateResolverConfig -> resolver.SetConfig), the watch *)
(* task started by nameserver.run, the fsnotify goroutine of main, and the *)
(* UDP serving loop of main with its per-datagram goroutines.              *)
(***************************************************************************)
EXTENDS Integers, Sequences, FiniteSets, TLC

VARIABLES
    proc,       \* the process: "running", "exit0" (main returned), "exit1" (log.Fatalf), "panic"
    ctxDone,    \* ctx of main: TRUE once cancel() was called
    cfgSrc,     \* the file /config/dns.json as configReader finds it
    store,      \* the resolver's active resolver.Config
    mainPc,     \* main goroutine: "run", "initReload", "listen", "accept", "exited"
    upd,        \* the activation of updateResolverConfig (main's or the watch task's):
                \* pc "idle", "read", "loop", "ret"; cfg, dnsCfg.Hosts; todo, the
                \* hostnames range has not yielded yet; hosts, c.Hosts; err, the
                \* returned error; and as history src, the file state read; old, the
                \* resolver's configuration at the call; queried, a query was
                \* answered since the loop stored its first host; published,
                \* SetConfig was called
    wPc,        \* goroutine of run(): "notstarted", "select", "update", "success", "exited"
    fsPc,       \* fsnotify goroutine of main: "select", "send" (blocked in c <- msg), "done"
    msg,        \* the event named by msg while the fsnotify goroutine is in c <- msg
    chanClosed, \* configWatcher has been closed by its owner
    watcherEnded, \* watcher.Events or watcher.Errors is closed, or an error is waiting
                \* in watcher.Errors
    conn,       \* the UDP socket: "none", "open", "closed"
    closerPc,   \* goroutine <-ctx.Done(); conn.Close(): "notstarted", "wait", "done"
    handlers,   \* the per-datagram goroutines, by datagram
    net,        \* replies delivered by conn.WriteToUDP
    hist        \* history, not program state: initFailed, the initial reload read a
                \* content that must be rejected; lateFail, a reload failed while main
                \* was in its serving loop; applied, the file state read by the last
                \* finished reload that called SetConfig; blockedEnd, the watcher's
                \* channels ended while the fsnotify goroutine was in c <- msg

vars == <<proc, ctxDone, cfgSrc, store, mainPc, upd, wPc, fsPc, msg,
          chanClosed, watcherEnded, conn, closerPc, handlers, net, hist>>

-----------------------------------------------------------------------------
(* Bounds *)

\* datagrams the accept loop reads in one run
MaxDatagrams == 2

-----------------------------------------------------------------------------
(* Values *)

EmptyMap == [x \in {} |-> <<>>]

\* hostnames as they appear as keys of the "hosts" object: character sequences
HostA     == <<"a", ".">>
HostANoDot == <<"a">>
HostB     == <<"b", ".">>
HostBad   == <<"a", ".", ".">>

IP1 == "10.20.30.40"
IP2 == "10.40.30.20"
IPBad == "10.20.30"

kubeletMountedConfigLn == "..data"
defaultDNSFile == "dns.json"
toWatch == kubeletMountedConfigLn

tsnetRootDomains == {<<"t", "s", ".", "n", "e", "t">>, <<"t", "s", ".", "n", "e", "t", ".">>}

\* the "hosts" objects of the JSON documents the file may hold
HostsDocs ==
    { (HostA :> <<IP1>>),
      (HostB :> <<IP2>>),
      (HostA :> <<IP2>>) @@ (HostB :> <<IP1>>),
      (HostANoDot :> <<IP1>>) @@ (HostA :> <<IP2>>),
      (HostA :> <<IP1, IP2>>) @@ (HostB :> <<>>),
      (HostB :> <<IP1>>) @@ (HostBad :> <<IP1>>),
      (HostA :> <<IP2>>) @@ (HostB :> <<IP1, IPBad>>),
      EmptyMap }

Missing    == [kind |-> "missing"]
Unreadable == [kind |-> "unreadable"]
EmptyFile  == [kind |-> "file", wellFormed |-> TRUE, len |-> 0, hosts |-> EmptyMap]
Garbage    == [kind |-> "file", wellFormed |-> FALSE, len |-> 1, hosts |-> EmptyMap]
JsonFile(h) == [kind |-> "file", wellFormed |-> TRUE, len |-> 1, hosts |-> h]

\* every state of the config file
Contents == {Missing, Unreadable, EmptyFile, Garbage} \cup {JsonFile(h) : h \in HostsDocs}

\* the datagrams that may arrive, each once: a query name and the sender's address
Datagrams == 1..MaxDatagrams
PayloadOf(d) == IF d % 2 = 1 THEN HostA ELSE HostB
SenderOf(d) == d

\* the states the config file changes to while datagrams are served
ServeContents == {JsonFile(HostA :> <<IP1>>),
                  JsonFile((HostA :> <<IP2>>) @@ (HostB :> <<IP1>>)),
                  Garbage}

\* the states the config file may be in at startup while datagrams are served
StartContents == ServeContents \cup
                 {JsonFile((HostB :> <<IP1>>) @@ (HostBad :> <<IP1>>)),
                  JsonFile((HostA :> <<IP2>>) @@ (HostB :> <<IP1, IPBad>>)),
                  Unreadable}

-----------------------------------------------------------------------------
(* Pure functions *)

\* configReader of main: the file's bytes, nil bytes when the file does not
\* exist, the error otherwise
configReader(src) ==
    CASE src.kind = "file"    -> [bytes |-> src, isNil |-> FALSE, err |-> FALSE]
      [] src.kind = "missing" -> [bytes |-> EmptyFile, isNil |-> TRUE, err |-> FALSE]
      [] OTHER                -> [bytes |-> EmptyFile, isNil |-> TRUE, err |-> TRUE]

\* json.Unmarshal into operatorutils.TSHosts
Unmarshal(bytes) ==
    IF bytes.wellFormed THEN [err |-> FALSE, Hosts |-> bytes.hosts]
    ELSE [err |-> TRUE, Hosts |-> EmptyMap]

StripLeadingDot(s) == IF Len(s) > 0 /\ s[1] = "." THEN Tail(s) ELSE s
StripTrailingDot(s) == IF Len(s) > 0 /\ s[Len(s)] = "." THEN SubSeq(s, 1, Len(s) - 1) ELSE s

\* no label between dots is empty
LabelsOk(s) ==
    /\ Len(s) > 0
    /\ s[1] # "."
    /\ s[Len(s)] # "."
    /\ \A i \in 1..(Len(s) - 1) : ~(s[i] = "." /\ s[i + 1] = ".")

\* dnsname.ToFQDN: the name with exactly one trailing dot, or an error
ToFQDN(s) ==
    IF Len(s) = 0 \/ s = <<".">> THEN [err |-> FALSE, fqdn |-> <<".">>]
    ELSE LET s1 == StripLeadingDot(s)
             s2 == StripTrailingDot(s1)
         IN IF ~LabelsOk(s2) THEN [err |-> TRUE, fqdn |-> <<>>]
            ELSE [err |-> FALSE, fqdn |-> Append(s2, ".")]

\* netip.ParseAddr
ParseAddr(ip) ==
    CASE ip = IP1 -> [err |-> FALSE, addr |-> <<10, 20, 30, 40>>]
      [] ip = IP2 -> [err |-> FALSE, addr |-> <<10, 40, 30, 20>>]
      [] OTHER    -> [err |-> TRUE, addr |-> <<>>]

\* m[k] = v of a Go map
MapSet(m, k, v) == [x \in (DOMAIN m) \cup {k} |-> IF x = k THEN v ELSE m[x]]

\* a state of the file that a reload must reject: unreadable, or non-empty and
\* malformed, or with a hostname ToFQDN refuses or an address ParseAddr refuses
BadContent(src) ==
    \/ src.kind = "unreadable"
    \/ /\ src.kind = "file"
       /\ src.len >= 1
       /\ \/ ~src.wellFormed
          \/ \E k \in DOMAIN src.hosts :
                \/ ToFQDN(k).err
                \/ \E i \in 1..Len(src.hosts[k]) : ParseAddr(src.hosts[k][i]).err

\* a well-formed non-empty content that no reload rejects
ValidContent(src) == src.kind = "file" /\ src.len >= 1 /\ ~BadContent(src)

\* a state of the file that a reload reads as "no DNS config provided"
EmptyContent(src) == src.kind = "missing" \/ (src.kind = "file" /\ src.len < 1)

\* host table hosts publishes content src: its names are the FQDNs of the
\* hostnames of src that have an address, each resolving to addresses of such
\* a hostname
Publishes(hosts, src) ==
    LET named == {k \in DOMAIN src.hosts : Len(src.hosts[k]) > 0}
        names == {ToFQDN(k).fqdn : k \in named}
        addrs(f) == UNION {{ParseAddr(src.hosts[k][i]).addr : i \in 1..Len(src.hosts[k])} :
                              k \in {x \in named : ToFQDN(x).fqdn = f}}
    IN /\ DOMAIN hosts = names
       /\ \A f \in names :
            /\ Len(hosts[f]) >= 1
            /\ \A i \in 1..Len(hosts[f]) : hosts[f][i] \in addrs(f)

\* resolver.Query on the active configuration: the answer for the queried name
Response(cfg, name) ==
    [name |-> name, ips |-> IF name \in DOMAIN cfg.Hosts THEN cfg.Hosts[name] ELSE <<>>]

-----------------------------------------------------------------------------
(* State *)

\* resolver.New: no hosts, no local domains
InitialConfig == [Hosts |-> EmptyMap, LocalDomains |-> {}]

\* no reload has called SetConfig yet
NothingApplied == [kind |-> "none"]

\* no event is being handed over
NoMsg == "none"

\* a datagram not read yet
NoHandler == [pc |-> "none", err |-> FALSE, wrote |-> FALSE]

UpdIdle == [pc |-> "idle", src |-> Missing, cfg |-> EmptyMap, todo |-> {},
            hosts |-> EmptyMap, err |-> FALSE, old |-> InitialConfig,
            queried |-> FALSE, published |-> FALSE]

\* main up to the call of ns.run: the watcher goroutine is in its select, the
\* file is in one of the states of C
InitWith(C) ==
    /\ proc = "running"
    /\ ctxDone = FALSE
    /\ cfgSrc \in C
    /\ store = InitialConfig
    /\ mainPc = "run"
    /\ upd = UpdIdle
    /\ wPc = "notstarted"
    /\ fsPc = "select"
    /\ msg = NoMsg
    /\ chanClosed = FALSE
    /\ watcherEnded = FALSE
    /\ conn = "none"
    /\ closerPc = "notstarted"
    /\ handlers = [d \in Datagrams |-> NoHandler]
    /\ net = {}
    /\ hist = [initFailed |-> FALSE, lateFail |-> FALSE, applied |-> NothingApplied,
               blockedEnd |-> FALSE]

Init == InitWith(Contents)

-----------------------------------------------------------------------------
(* updateResolverConfig *)

\* the call: nothing read yet
UpdCall == [UpdIdle EXCEPT !.pc = "read", !.old = store]

UpdReturn(u, e) == [u EXCEPT !.pc = "ret", !.err = e, !.todo = {}, !.queried = FALSE]

\* c.Hosts starting from the resolver's active table instead of an empty map
KeptHosts(active) == active

\* c.Hosts = make(map[dnsname.FQDN][]netip.Addr)
FreshHosts(active) == EmptyMap

\* the inner loop skipping an address that does not parse instead of
\* returning the error
RECURSIVE AddAddrsSkipping(_, _, _)
AddAddrsSkipping(hosts, fqdn, ips) ==
    IF ips = <<>> THEN [err |-> FALSE, hosts |-> hosts]
    ELSE LET a == ParseAddr(Head(ips))
         IN IF a.err THEN AddAddrsSkipping(hosts, fqdn, Tail(ips))
            ELSE AddAddrsSkipping(MapSet(hosts, fqdn, <<a.addr>>), fqdn, Tail(ips))

\* the inner loop appending each address to the hostname's list
RECURSIVE AddAddrsAppending(_, _, _)
AddAddrsAppending(hosts, fqdn, ips) ==
    IF ips = <<>> THEN [err |-> FALSE, hosts |-> hosts]
    ELSE LET a == ParseAddr(Head(ips))
             had == IF fqdn \in DOMAIN hosts THEN hosts[fqdn] ELSE <<>>
         IN IF a.err THEN [err |-> TRUE, hosts |-> hosts]
            ELSE AddAddrsAppending(MapSet(hosts, fqdn, Append(had, a.addr)), fqdn, Tail(ips))

\* the inner loop over one hostname's addresses: c.Hosts[fqdn] = []netip.Addr{ip}
\* for each address in turn, stopping at the first that does not parse
RECURSIVE AddAddrs(_, _, _)
AddAddrs(hosts, fqdn, ips) ==
    IF ips = <<>> THEN [err |-> FALSE, hosts |-> hosts]
    ELSE LET a == ParseAddr(Head(ips))
         IN IF a.err THEN [err |-> TRUE, hosts |-> hosts]
            ELSE AddAddrs(MapSet(hosts, fqdn, <<a.addr>>), fqdn, Tail(ips))

\* the outer loop checking the hostname with ToFQDN but keying c.Hosts by the
\* hostname as written
AddHostRawKey(hosts, k, ips) ==
    IF ToFQDN(k).err THEN [err |-> TRUE, hosts |-> hosts]
    ELSE AddAddrs(hosts, k, ips)

\* one iteration of the outer loop, for hostname k
AddHost(hosts, k, ips) ==
    LET f == ToFQDN(k)
    IN IF f.err THEN [err |-> TRUE, hosts |-> hosts]
       ELSE AddAddrs(hosts, f.fqdn, ips)

\* the loop storing each host into the resolver's configuration as it goes
StoreEachHost(active, hosts) == [Hosts |-> hosts, LocalDomains |-> tsnetRootDomains]

\* what the resolver holds while updateResolverConfig is still in its loop
StoreDuringLoop(active, hosts) == active

\* the configuration built without the assignment of c.LocalDomains
SetConfigHostsOnly(hosts) == [Hosts |-> hosts, LocalDomains |-> {}]

\* n.res.SetConfig(c)
SetConfig(hosts) == [Hosts |-> hosts, LocalDomains |-> tsnetRootDomains]

\* the empty check also returning when the bytes read are those of the
\* content last applied
NoConfigOrUnchanged(r) == r.isNil \/ r.bytes.len < 1 \/ r.bytes = hist.applied

\* line 210: dnsCfgBytes == nil || len(dnsCfgBytes) < 1
NoConfigProvided(r) == r.isNil \/ r.bytes.len < 1

\* lines 205-223: read, the empty check, unmarshal
UpdateRead ==
    /\ proc = "running"
    /\ upd.pc = "read"
    /\ LET r == configReader(cfgSrc)
           u == [upd EXCEPT !.src = cfgSrc]
       IN IF r.err THEN upd' = UpdReturn(u, TRUE)
          ELSE IF NoConfigProvided(r) THEN upd' = UpdReturn(u, FALSE)
          ELSE LET j == Unmarshal(r.bytes)
               IN IF j.err THEN upd' = UpdReturn(u, TRUE)
                  ELSE upd' = [u EXCEPT !.pc = "loop", !.cfg = j.Hosts,
                                        !.todo = DOMAIN j.Hosts,
                                        !.hosts = FreshHosts(store.Hosts)]
    /\ UNCHANGED <<proc, ctxDone, cfgSrc, store, mainPc, wPc, fsPc, msg,
                   chanClosed, watcherEnded, conn, closerPc, handlers, net, hist>>

\* lines 230-244: one hostname of the map, in the order range yields them
UpdateEntry ==
    /\ proc = "running"
    /\ upd.pc = "loop"
    /\ \E k \in upd.todo :
         LET r == AddHost(upd.hosts, k, upd.cfg[k])
         IN IF r.err
            THEN /\ upd' = UpdReturn(upd, TRUE)
                 /\ store' = store
            ELSE /\ upd' = [upd EXCEPT !.todo = @ \ {k}, !.hosts = r.hosts]
                 /\ store' = StoreDuringLoop(store, r.hosts)
    /\ UNCHANGED <<proc, ctxDone, cfgSrc, mainPc, wPc, fsPc, msg,
                   chanClosed, watcherEnded, conn, closerPc, handlers, net, hist>>

\* lines 246-247: SetConfig and return nil
UpdatePublish ==
    /\ proc = "running"
    /\ upd.pc = "loop"
    /\ upd.todo = {}
    /\ store' = SetConfig(upd.hosts)
    /\ upd' = [UpdReturn(upd, FALSE) EXCEPT !.published = TRUE]
    /\ UNCHANGED <<proc, ctxDone, cfgSrc, mainPc, wPc, fsPc, msg,
                   chanClosed, watcherEnded, conn, closerPc, handlers, net, hist>>

-----------------------------------------------------------------------------
(* nameserver.run and the watch task *)

\* run going on to start the watch task although the initial reload failed
RunSwallowsError(err) == FALSE

\* run, line 177: whether the initial reload's error makes run return it
RunReturnsError(err) == err

\* main calls ns.run, which calls updateResolverConfig
MainRun ==
    /\ proc = "running"
    /\ mainPc = "run"
    /\ upd.pc = "idle"
    /\ mainPc' = "initReload"
    /\ upd' = UpdCall
    /\ UNCHANGED <<proc, ctxDone, cfgSrc, store, wPc, fsPc, msg,
                   chanClosed, watcherEnded, conn, closerPc, handlers, net, hist>>

\* the initial reload has returned: run returns its error and main ends in
\* log.Fatalf (lines 178, 130), or run starts the watch task and returns nil
MainAfterInit ==
    /\ proc = "running"
    /\ mainPc = "initReload"
    /\ upd.pc = "ret"
    /\ hist' = [hist EXCEPT !.initFailed = BadContent(upd.src),
                            !.applied = IF upd.published THEN upd.src ELSE @]
    /\ upd' = UpdIdle
    /\ IF RunReturnsError(upd.err)
       THEN /\ proc' = "exit1"
            /\ UNCHANGED <<mainPc, wPc>>
       ELSE /\ wPc' = "select"
            /\ mainPc' = "listen"
            /\ proc' = proc
    /\ UNCHANGED <<ctxDone, cfgSrc, store, fsPc, msg,
                   chanClosed, watcherEnded, conn, closerPc, handlers, net>>

\* select, case <-ctx.Done(): the watch task returns
WatchDone ==
    /\ proc = "running"
    /\ wPc = "select"
    /\ ctxDone
    /\ wPc' = "exited"
    /\ UNCHANGED <<proc, ctxDone, cfgSrc, store, mainPc, upd, fsPc, msg,
                   chanClosed, watcherEnded, conn, closerPc, handlers, net, hist>>

\* select, case <-n.configWatcher: a value handed over by the blocked sender,
\* or the zero value of a closed channel; updateResolverConfig is called
WatchRecv ==
    /\ proc = "running"
    /\ wPc = "select"
    /\ fsPc = "send" \/ chanClosed
    /\ fsPc' = IF fsPc = "send" THEN "select" ELSE fsPc
    /\ msg' = NoMsg
    /\ wPc' = "update"
    /\ upd' = UpdCall
    /\ UNCHANGED <<proc, ctxDone, cfgSrc, store, mainPc,
                   chanClosed, watcherEnded, conn, closerPc, handlers, net, hist>>

\* lines 189-192: updateResolverConfig has returned; on error the error is
\* logged and cancelF is called
WatchAfterUpdate ==
    /\ proc = "running"
    /\ wPc = "update"
    /\ upd.pc = "ret"
    /\ IF upd.err
       THEN /\ ctxDone' = TRUE
            /\ hist' = [hist EXCEPT !.lateFail = @ \/ mainPc = "accept"]
       ELSE UNCHANGED <<ctxDone, hist>>
    /\ wPc' = "success"
    /\ UNCHANGED <<proc, cfgSrc, store, mainPc, upd, fsPc, msg,
                   chanClosed, watcherEnded, conn, closerPc, handlers, net>>

\* line 193: "successfully updated resolver config" is logged and the loop
\* goes back to its select
WatchLogSuccess ==
    /\ proc = "running"
    /\ wPc = "success"
    /\ wPc' = "select"
    /\ upd' = UpdIdle
    /\ hist' = [hist EXCEPT !.applied = IF upd.published THEN upd.src ELSE @]
    /\ UNCHANGED <<proc, ctxDone, cfgSrc, store, mainPc, fsPc, msg,
                   chanClosed, watcherEnded, conn, closerPc, handlers, net>>

-----------------------------------------------------------------------------
(* main: the fsnotify goroutine *)

\* the goroutine passing on every event, whatever its name
PassesEveryEvent(name) == TRUE

\* line 98: if event.Name == toWatch
PassesEvent(name) == name = toWatch

\* the directory entries fsnotify reports events for
EventNames == {toWatch, defaultDNSFile}

\* case event := <-watcher.Events: only an event named toWatch is passed on,
\* by c <- msg (a send on a closed channel panics)
FsEvent ==
    /\ proc = "running"
    /\ fsPc = "select"
    /\ \E name \in EventNames :
         IF PassesEvent(name)
         THEN IF chanClosed THEN proc' = "panic" /\ UNCHANGED <<fsPc, msg>>
              ELSE fsPc' = "send" /\ msg' = name /\ proc' = proc
         ELSE UNCHANGED <<fsPc, msg, proc>>
    /\ UNCHANGED <<ctxDone, cfgSrc, store, mainPc, upd, wPc,
                   chanClosed, watcherEnded, conn, closerPc, handlers, net, hist>>

\* the goroutine returning without cancel()
ReturnsWithoutCancel(done) == done

\* cancel() of lines 96, 107 and 111
Cancel(done) == TRUE

\* watcher.Events closed, watcher.Errors closed, or an error delivered, while
\* the goroutine is in its select: cancel() and return
FsFinished ==
    /\ proc = "running"
    /\ fsPc = "select"
    /\ ~watcherEnded
    /\ watcherEnded' = TRUE
    /\ fsPc' = "done"
    /\ ctxDone' = Cancel(ctxDone)
    /\ UNCHANGED <<proc, cfgSrc, store, mainPc, upd, wPc, msg,
                   chanClosed, conn, closerPc, handlers, net, hist>>

\* the goroutine comes to its select after watcher.Events or watcher.Errors
\* was closed or an error delivered: cancel() and return
FsSeesEnd ==
    /\ proc = "running"
    /\ fsPc = "select"
    /\ watcherEnded
    /\ fsPc' = "done"
    /\ ctxDone' = Cancel(ctxDone)
    /\ UNCHANGED <<proc, cfgSrc, store, mainPc, upd, wPc, msg,
                   chanClosed, watcherEnded, conn, closerPc, handlers, net, hist>>

-----------------------------------------------------------------------------
(* main: the UDP serving loop *)

\* the goroutine returning on ctx.Done() without closing the socket
CloserLeavesOpen(c) == c

\* conn.Close() of the goroutine waiting for ctx.Done()
CloserEffect(c) == "closed"

\* the handler goroutine returning after logging the query's error
WritesReplyUnlessError(err) == ~err

\* the handler goroutine writes the answer whether or not query returned an error
WritesReply(err) == TRUE

\* net.ListenUDP succeeds and the closing goroutine is started; or log.Fatalf
MainListen ==
    /\ proc = "running"
    /\ mainPc = "listen"
    /\ \/ /\ conn' = "open"
          /\ closerPc' = "wait"
          /\ mainPc' = "accept"
          /\ proc' = proc
       \/ /\ proc' = "exit1"
          /\ UNCHANGED <<conn, closerPc, mainPc>>
    /\ UNCHANGED <<ctxDone, cfgSrc, store, upd, wPc, fsPc, msg,
                   chanClosed, watcherEnded, handlers, net, hist>>

\* go func() { <-ctx.Done(); conn.Close() }()
Closer ==
    /\ proc = "running"
    /\ closerPc = "wait"
    /\ ctxDone
    /\ conn' = CloserEffect(conn)
    /\ closerPc' = "done"
    /\ UNCHANGED <<proc, ctxDone, cfgSrc, store, mainPc, upd, wPc, fsPc, msg,
                   chanClosed, watcherEnded, handlers, net, hist>>

\* conn.ReadMsgUDP returns datagram d: its handler goroutine is started with
\* the iteration's own payloadBuff and addr
MainRead ==
    /\ proc = "running"
    /\ mainPc = "accept"
    /\ conn = "open"
    /\ \E d \in Datagrams :
         /\ handlers[d].pc = "none"
         /\ handlers' = [handlers EXCEPT ![d].pc = "query"]
    /\ UNCHANGED <<proc, ctxDone, cfgSrc, store, mainPc, upd, wPc, fsPc, msg,
                   chanClosed, watcherEnded, conn, closerPc, net, hist>>

\* conn.ReadMsgUDP fails on the closed socket: main returns, the process ends
MainReadFail ==
    /\ proc = "running"
    /\ mainPc = "accept"
    /\ conn = "closed"
    /\ mainPc' = "exited"
    /\ proc' = "exit0"
    /\ UNCHANGED <<ctxDone, cfgSrc, store, upd, wPc, fsPc, msg,
                   chanClosed, watcherEnded, conn, closerPc, handlers, net, hist>>

\* payloadBuff declared once before the loop: every handler reads the buffer
\* as the latest ReadMsgUDP left it
SharedPayload(d, hs) ==
    PayloadOf(CHOOSE x \in Datagrams :
                 /\ hs[x].pc # "none"
                 /\ \A y \in Datagrams : hs[y].pc # "none" => y <= x)

\* line 150: payloadBuff is made anew in each iteration, so the handler of
\* datagram d reads d's payload
HandlerPayload(d, hs) == PayloadOf(d)

\* the handler goroutine of datagram d, lines 157-167: ns.query answers from
\* the resolver's active configuration and may report an error beside the
\* answer; the error is logged, then conn.WriteToUDP(dnsAnswer, addr), which
\* delivers unless the socket is closed
HandleOf(d) ==
    /\ proc = "running"
    /\ handlers[d].pc = "query"
    /\ \E e \in BOOLEAN :
         LET dnsAnswer == Response(store, HandlerPayload(d, handlers))
             delivered == WritesReply(e) /\ conn = "open"
         IN /\ handlers' = [handlers EXCEPT ![d] =
                   [pc |-> "done", err |-> e, wrote |-> delivered]]
            /\ net' = IF delivered
                      THEN net \cup {[to |-> SenderOf(d), bytes |-> dnsAnswer]}
                      ELSE net
    /\ upd' = [upd EXCEPT !.queried =
                    @ \/ (upd.pc = "loop" /\ upd.hosts # EmptyMap /\ upd.todo # {})]
    /\ UNCHANGED <<proc, ctxDone, cfgSrc, store, mainPc, wPc, fsPc, msg,
                   chanClosed, watcherEnded, conn, closerPc, hist>>

Handle == \E d \in Datagrams : HandleOf(d)

-----------------------------------------------------------------------------
(* Environment *)

\* the mounted file changes
ChangeConfig ==
    /\ proc = "running"
    /\ \E c \in Contents \ {cfgSrc} : cfgSrc' = c
    /\ UNCHANGED <<proc, ctxDone, store, mainPc, upd, wPc, fsPc, msg,
                   chanClosed, watcherEnded, conn, closerPc, handlers, net, hist>>

\* the mounted file changes, among the states of ServeContents
ChangeConfigServe ==
    /\ proc = "running"
    /\ \E c \in ServeContents \ {cfgSrc} : cfgSrc' = c
    /\ UNCHANGED <<proc, ctxDone, store, mainPc, upd, wPc, fsPc, msg,
                   chanClosed, watcherEnded, conn, closerPc, handlers, net, hist>>

\* fsnotify closes watcher.Events or watcher.Errors, or puts an error into
\* watcher.Errors, whatever the goroutine reading them is doing
WatcherEnds ==
    /\ proc = "running"
    /\ ~watcherEnded
    /\ watcherEnded' = TRUE
    /\ hist' = [hist EXCEPT !.blockedEnd = (fsPc = "send")]
    /\ UNCHANGED <<proc, ctxDone, cfgSrc, store, mainPc, upd, wPc, fsPc, msg,
                   chanClosed, conn, closerPc, handlers, net>>

\* the owner of configWatcher closes it (a sender blocked on it panics)
CloseConfigWatcher ==
    /\ proc = "running"
    /\ ~chanClosed
    /\ chanClosed' = TRUE
    /\ proc' = IF fsPc = "send" THEN "panic" ELSE proc
    /\ UNCHANGED <<ctxDone, cfgSrc, store, mainPc, upd, wPc, fsPc, msg,
                   watcherEnded, conn, closerPc, handlers, net, hist>>

-----------------------------------------------------------------------------
(* Specifications *)

\* the steps of the program's goroutines, datagram handling apart
Program ==
    \/ MainRun \/ UpdateRead \/ UpdateEntry \/ UpdatePublish \/ MainAfterInit
    \/ WatchDone \/ WatchRecv \/ WatchAfterUpdate \/ WatchLogSuccess
    \/ MainListen \/ Closer \/ MainReadFail

\* the filesystem watcher's channels
Watcher == FsEvent \/ FsFinished

\* every state of the config file, no datagram arriving
Next == Program \/ Watcher \/ ChangeConfig

Spec == Init /\ [][Next]_vars

\* datagrams arriving, the config file starting among StartContents and
\* changing among ServeContents
NextServe == Program \/ Watcher \/ MainRead \/ Handle \/ ChangeConfigServe

SpecServe == InitWith(StartContents) /\ [][NextServe]_vars

\* the owner of configWatcher may close it
NextClose == Next \/ CloseConfigWatcher

SpecClose == Init /\ [][NextClose]_vars

\* the watcher's channels may end whatever the fsnotify goroutine is doing, the
\* config file changing among ServeContents
NextWatch == Program \/ FsEvent \/ WatcherEnds \/ FsSeesEnd \/ ChangeConfigServe

SpecWatch == InitWith(ServeContents) /\ [][NextWatch]_vars

\* the steps of main's goroutine, of updateResolverConfig (run by main or by
\* the watch task, never both) and of the watch task after a reload
MainThread == MainRun \/ MainAfterInit \/ MainListen \/ MainReadFail
Update == UpdateRead \/ UpdateEntry \/ UpdatePublish
WatchThread == WatchAfterUpdate \/ WatchLogSuccess

\* the scheduler runs every goroutine that can take a step; a select with
\* several ready cases picks among them at random, so the ctx.Done() case,
\* ready from the cancellation on, is taken eventually
Fairness ==
    /\ WF_vars(MainThread) /\ WF_vars(Update) /\ WF_vars(WatchThread)
    /\ WF_vars(Closer)
    /\ SF_vars(WatchDone)

FairSpec == Init /\ [][Next]_vars /\ Fairness

\* a watch task whose only ready case is the receive takes it; the fsnotify
\* goroutine's select picks at random among its ready cases, so the closed or
\* error-bearing channel, ready whenever the goroutine is in its select, is
\* taken eventually
FairSpecWatch ==
    /\ SpecWatch
    /\ Fairness
    /\ WF_vars(WatchRecv)
    /\ SF_vars(FsSeesEnd)

-----------------------------------------------------------------------------
(* Claims *)

\* C1: when the initial reload reads a content that must be rejected (read
\* error, malformed JSON, a hostname that is no FQDN, an address that does not
\* parse), run returns the error and main ends in log.Fatalf: the watch task
\* is never started, the socket never opened, no datagram read, no reply sent.
C1_InitFailNeverServes ==
    hist.initFailed =>
        /\ proc = "exit1"
        /\ wPc = "notstarted"
        /\ conn = "none"
        /\ closerPc = "notstarted"
        /\ \A d \in Datagrams : handlers[d].pc = "none"
        /\ net = {}
        /\ store = InitialConfig

C1_Witness == hist.initFailed /\ proc = "exit1" /\ cfgSrc = Unreadable

\* C2: a reload started by a change signal reads the file as it then is and,
\* unless the process ends, reaches its end; if what it read is a valid
\* non-empty content, the resolver's host table then is the one that publishes
\* that content: the names of the content and no other.
C2_SignalPublishesNewContent ==
    /\ [][(wPc = "update" /\ upd.pc = "read" /\ upd'.pc # "read") => upd'.src = cfgSrc]_vars
    /\ (wPc = "update" /\ upd.pc = "read")
          ~> \/ /\ wPc = "success"
                /\ ValidContent(upd.src) =>
                      (~upd.err /\ Publishes(store.Hosts, upd.src))
             \/ proc # "running"

\* a signal-triggered reload has replaced a host table by that of the new
\* content, and a name of the old table is gone
C2_Witness ==
    /\ wPc = "success"
    /\ ~upd.err
    /\ ValidContent(upd.src)
    /\ Publishes(store.Hosts, upd.src)
    /\ store.Hosts # EmptyMap
    /\ (DOMAIN upd.old.Hosts) \ (DOMAIN store.Hosts) # {}

\* C3: after a reload that read an empty or absent config, the reload has
\* succeeded and the resolver holds an empty host table and the built-in
\* local domains.
C3_EmptyReloadEmptiesStore ==
    (upd.pc = "ret" /\ EmptyContent(upd.src)) =>
        /\ ~upd.err
        /\ store.Hosts = EmptyMap
        /\ store.LocalDomains = tsnetRootDomains

\* C4: a reload of a content that must be rejected returns an error and
\* leaves the resolver's configuration as it was when the reload was called,
\* at every point of the reload.
C4_RejectedReloadKeepsStore ==
    (upd.pc \in {"loop", "ret"} /\ BadContent(upd.src)) =>
        /\ store = upd.old
        /\ upd.pc = "ret" => upd.err

\* a signal-triggered reload has been rejected after a valid entry of the
\* content was already put into c.Hosts, with a host table active before
C4_Witness ==
    /\ wPc = "update"
    /\ upd.pc = "ret"
    /\ BadContent(upd.src)
    /\ upd.hosts # EmptyMap
    /\ upd.old.Hosts # EmptyMap
    /\ upd.hosts # upd.old.Hosts

\* C5: a query that runs while a reload is between its read and its return
\* sees the resolver's configuration of before the reload; one that runs after
\* SetConfig sees the configuration built from every entry of the content read
\* (or, the reload having returned early, still the one of before).
C5_QuerySeesWholeConfig ==
    [][(\E d \in Datagrams : handlers[d].pc = "query" /\ handlers'[d].pc = "done") =>
          /\ upd.pc \in {"read", "loop"} => store = upd.old
          /\ upd.pc = "ret" =>
                \/ store = upd.old
                \/ /\ Publishes(store.Hosts, upd.src)
                   /\ store.LocalDomains = tsnetRootDomains]_vars

\* a query has been answered, and its reply delivered, while the reload of a
\* two-host content had stored one host in c.Hosts and not yet the other
C5_Witness ==
    /\ upd.pc = "loop"
    /\ upd.queried
    /\ upd.old.Hosts # EmptyMap
    /\ upd.hosts # upd.old.Hosts
    /\ \E d \in Datagrams : handlers[d].pc = "done" /\ handlers[d].wrote

\* C6: once a signal-triggered reload has failed while main was serving, the
\* process, when it has ended, has ended with a non-zero status.
C6_LateFailExitsNonZero ==
    (hist.lateFail /\ proc # "running") => proc = "exit1"

\* C7: once the context is cancelled the process eventually ends, whatever
\* signal the watcher is blocked handing over: main returns from the accept
\* loop, which it does only with the socket closed, or has ended in
\* log.Fatalf before serving; the watch task has then returned through its
\* ctx.Done() case or is gone with the process.
C7_CancelShutsDown ==
    /\ [](proc = "exit0" => (ctxDone /\ conn = "closed" /\ closerPc = "done"))
    /\ ctxDone ~> (proc = "exit0" \/ (proc = "exit1" /\ conn = "none"))

\* the context was cancelled while the watcher was blocked handing over a
\* signal: the watch task has returned, the socket is closed, main has returned
C7_Witness ==
    /\ ctxDone
    /\ fsPc = "send"
    /\ wPc = "exited"
    /\ conn = "closed"
    /\ proc = "exit0"

\* C8: the handler of a datagram hands the answer of query, for its own
\* payload, with its own sender's address to WriteToUDP whether or not query
\* reported an error (the reply is delivered whenever the socket is open), and
\* neither cancels the context nor ends the process.
C8_ReplyDespiteQueryError ==
    [][\A d \in Datagrams :
          (handlers[d].pc = "query" /\ handlers'[d].pc = "done") =>
             /\ conn = "open" =>
                   [to |-> SenderOf(d), bytes |-> Response(store, PayloadOf(d))] \in net'
             /\ handlers'[d].wrote = (conn = "open")
             /\ ctxDone' = ctxDone
             /\ proc' = proc]_vars

\* a query reported an error and its answer was delivered all the same
C8_Witness ==
    \E d \in Datagrams :
        /\ handlers[d].pc = "done"
        /\ handlers[d].err
        /\ handlers[d].wrote
        /\ \E r \in net : r.to = SenderOf(d) /\ r.bytes.name = PayloadOf(d)

\* C9: when the process has ended through the accept loop's exit, every
\* datagram that was read has had its query answered and its reply delivered.
C9_DispatchedWorkCompletes ==
    proc = "exit0" =>
        \A d \in Datagrams :
            handlers[d].pc # "none" => (handlers[d].pc = "done" /\ handlers[d].wrote)

\* C10: once configWatcher is closed, the watch task starts no reload.
C10_ClosedChannelNoReload ==
    [][chanClosed => ~(wPc = "select" /\ wPc' = "update")]_vars

\* C11: once watcher.Events or watcher.Errors is closed, or an error is
\* delivered in watcher.Errors, the context is eventually cancelled (unless
\* the process has ended before), also when the fsnotify goroutine is at that
\* moment blocked handing a signal to the watch task.
C11_WatcherEndCancels ==
    watcherEnded ~> (ctxDone \/ proc # "running")

\* the watcher's channels ended while the goroutine was blocked in c <- msg;
\* the goroutine has since returned and the context is cancelled
C11_Witness ==
    /\ hist.blockedEnd
    /\ fsPc = "done"
    /\ ctxDone
    /\ proc = "running"

\* the hostnames of content src that have an address and normalize to FQDN f
NamedAs(src, f) ==
    {k \in DOMAIN src.hosts : Len(src.hosts[k]) > 0 /\ ToFQDN(k).fqdn = f}

\* the resolver with configuration cfg answers a query for each hostname of
\* content src that has an address, under its FQDN, with exactly one address,
\* the last of the list of a hostname normalizing to that FQDN, and holds no
\* other name
AnswersContent(cfg, src) ==
    /\ \A k \in DOMAIN src.hosts :
          Len(src.hosts[k]) > 0 =>
             LET f == ToFQDN(k).fqdn
                 ans == Response(cfg, f).ips
             IN /\ Len(ans) = 1
                /\ \E x \in NamedAs(src, f) :
                      ans[1] = ParseAddr(src.hosts[x][Len(src.hosts[x])]).addr
    /\ \A f \in DOMAIN cfg.Hosts : NamedAs(src, f) # {}

\* C12: when the initial reload of a valid non-empty content returns, it has
\* succeeded and the resolver answers a query for each configured hostname,
\* under its FQDN, with exactly one address, the configured one; the same
\* holds, for the content last applied, whenever no reload is running.
C12_InitialReloadAnswers ==
    /\ (mainPc = "initReload" /\ upd.pc = "ret" /\ ValidContent(upd.src)) =>
          (~upd.err /\ upd.published /\ AnswersContent(store, upd.src))
    /\ (upd.pc = "idle" /\ hist.applied # NothingApplied) =>
          AnswersContent(store, hist.applied)

\* the initial reload has returned from a content that writes a hostname
\* without its trailing dot, and the resolver answers for the FQDN
C12_Witness ==
    /\ mainPc = "initReload"
    /\ upd.pc = "ret"
    /\ upd.published
    /\ HostANoDot \in DOMAIN upd.src.hosts
    /\ Len(Response(store, HostA).ips) = 1

\* C13: a reload that reads the content the last applying reload read, and
\* applies it again, leaves the resolver's configuration as it was, also when
\* two hostnames of the content normalize to the same FQDN.
C13_ReloadIdempotent ==
    (upd.pc = "ret" /\ upd.published /\ upd.src = hist.applied) => store = upd.old

\* C14: the configuration a reload has handed to SetConfig has as its
\* LocalDomains the two built-in names ts.net and ts.net., a non-empty set,
\* whatever the content read, also when its host map is empty; and the
\* resolver never holds other LocalDomains once a reload has called SetConfig.
C14_LocalDomainsFixed ==
    LET builtin == {<<"t", "s", ".", "n", "e", "t">>,
                    <<"t", "s", ".", "n", "e", "t", ".">>}
    IN /\ upd.published => (store.LocalDomains = builtin /\ store.LocalDomains # {})
       /\ hist.applied # NothingApplied => store.LocalDomains = builtin

\* a reload has handed over the configuration built from {"hosts": {}}
C14_Witness ==
    /\ upd.pc = "ret"
    /\ upd.published
    /\ upd.src = JsonFile(EmptyMap)
    /\ store.Hosts = EmptyMap
    /\ store.LocalDomains # {}

\* the context is cancelled and the fsnotify goroutine, the only other caller
\* of cancel, has not returned: a reload of the watch task has failed
ReloadHasFailed == ctxDone /\ fsPc # "done"

\* C15: once a reload of the watch task has failed, the watch task starts no
\* further reload and the resolver's configuration is not replaced again.
C15_NoReloadAfterFailure ==
    [][ReloadHasFailed =>
          /\ ~(wPc = "select" /\ wPc' = "update")
          /\ store' = store]_vars

\* C16: in the host table a reload has handed to SetConfig every value is a
\* list of exactly one address, the last of the list of a hostname of the
\* content normalizing to that FQDN; a hostname with several valid addresses,
\* alone in normalizing to its FQDN, has there its last address; and an FQDN
\* whose hostnames all have an empty list has no entry.
C16_LastAddressOnly ==
    (upd.pc = "ret" /\ upd.published) =>
        LET src == upd.src
            last(k) == ParseAddr(src.hosts[k][Len(src.hosts[k])]).addr
        IN /\ store.Hosts = upd.hosts
           /\ \A f \in DOMAIN store.Hosts :
                 /\ Len(store.Hosts[f]) = 1
                 /\ \E k \in NamedAs(src, f) : store.Hosts[f][1] = last(k)
                 /\ NamedAs(src, f) \in {{k} : k \in DOMAIN src.hosts} =>
                       \A k \in NamedAs(src, f) : store.Hosts[f] = <<last(k)>>
           /\ \A k \in DOMAIN src.hosts :
                 NamedAs(src, ToFQDN(k).fqdn) = {} => ToFQDN(k).fqdn \notin DOMAIN store.Hosts

\* a reload has published a content giving one hostname two addresses and
\* another none: the first has its second address, the other no entry
C16_Witness ==
    /\ upd.pc = "ret"
    /\ upd.published
    /\ upd.src = JsonFile((HostA :> <<IP1, IP2>>) @@ (HostB :> <<>>))
    /\ store.Hosts = (HostA :> <<ParseAddr(IP2).addr>>)

\* C17: the fsnotify goroutine hands over a signal only for an event named
\* ..data: it enters c <- msg only with such an event, an event of another name
\* leaves it in its select, and the watch task starts a reload only by taking
\* a signal so handed over.
C17_OnlyDataEventsSignal ==
    /\ [](fsPc = "send" => msg = "..data")
    /\ [][(fsPc = "select" /\ fsPc' = "send") => msg' = "..data"]_vars
    /\ [][(wPc = "select" /\ wPc' = "update") => (fsPc = "send" /\ msg = "..data")]_vars

\* the watch task is in its select and the fsnotify goroutine is handing over
\* the signal of a ..data event
C17_Witness ==
    /\ wPc = "select"
    /\ fsPc = "send"
    /\ msg = kubeletMountedConfigLn
    /\ proc = "running"

\* C18: datagrams are handled independently of one another: whatever the
\* handlers of other datagrams are doing, the accept loop with an open socket
\* can read a further datagram and a handler that has its datagram can answer
\* it; and every reply delivered to a sender answers that sender's own payload.
C18_HandlersIndependent ==
    /\ (proc = "running" /\ mainPc = "accept" /\ conn = "open"
          /\ \E d \in Datagrams : handlers[d].pc = "none") => ENABLED MainRead
    /\ \A d \in Datagrams :
          (proc = "running" /\ handlers[d].pc = "query") => ENABLED HandleOf(d)
    /\ \A r \in net : r.bytes.name = PayloadOf(r.to)
    /\ \A d \in Datagrams :
          handlers[d].wrote => \E r \in net : r.to = SenderOf(d)

\* the handler of one datagram has not returned from query while another
\* datagram has been read and answered, its reply delivered to its sender
C18_Witness ==
    \E d, e \in Datagrams :
        /\ d # e
        /\ handlers[d].pc = "query"
        /\ handlers[e].pc = "done"
        /\ handlers[e].wrote
        /\ \E r \in net : r.to = SenderOf(e) /\ r.bytes.name = PayloadOf(e)

\* C19 as claimed: a reload of the watch task that has read the content last
\* applied has not called SetConfig.
C19_UnchangedContentSkipped ==
    (wPc \in {"update", "success"} /\ upd.pc = "ret" /\ upd.src = hist.applied) =>
        ~upd.published

\* C19, amended: updates are not filtered by content. A reload of the watch
\* task that has read the content last applied has run in full: it has
\* succeeded and has called SetConfig with a configuration built anew from
\* that content, which the resolver then holds.
C19_UnchangedContentReapplied ==
    (wPc \in {"update", "success"} /\ upd.pc = "ret" /\ upd.src = hist.applied) =>
        /\ ~upd.err
        /\ upd.published
        /\ store = SetConfig(upd.hosts)
        /\ Publishes(store.Hosts, upd.src)

\* a signal came with the file unchanged since the content was applied, and
\* the reload has called SetConfig again, with an equal configuration
C19_Witness ==
    /\ wPc = "success"
    /\ upd.pc = "ret"
    /\ upd.src = hist.applied
    /\ upd.published
    /\ store = upd.old

\* C20: the watch task logs "successfully updated resolver config" (its step
\* from "success" back to the select) only for a reload whose
\* updateResolverConfig returned no error.
C20_SuccessLoggedOnlyOnSuccess ==
    [][(wPc = "success" /\ wPc' = "select") => ~upd.err]_vars

====
